---- MODULE Spec2Model ----
(***************************************************************************)
(* Stereo reconstruction pipeline: the chessboard calibrator               *)
(* (utils/camera_calibration.py), the batch DLT triangulation              *)
(* (utils/triangulate_3d_pose.py) and the single-point DLT solve.          *)
(*                                                                         *)
(* Values are tagged tuples so that every comparison is between values of  *)
(* one shape: None is <<"None">>, a numpy array is <<"ndarray", dtype,     *)
(* payload...>>, a JSON list is <<"list", payload...>>.                    *)
(***************************************************************************)
EXTENDS Integers, Sequences, FiniteSets, TLC

VARIABLES
    objpoints,      \* CameraCalibrator.objpoints
    imgpoints,      \* CameraCalibrator.imgpoints
    camera_matrix,  \* CameraCalibrator.camera_matrix
    dist_coeffs,    \* CameraCalibrator.dist_coeffs
    rvecs,          \* CameraCalibrator.rvecs
    tvecs,          \* CameraCalibrator.tvecs
    files,          \* the file system: file name -> content
    op,             \* the last call: <<name, argument>>
    ret,            \* what the last call returned or raised
    solves,         \* number of cv2.calibrateCamera invocations so far
    calibrated,     \* image_shape of the last successful calibrate(), or None
    accepted,       \* number of images in which the board was found so far
    view1_data,     \* session of view A: sequence of frames
    view2_data,     \* session of view B
    cam_matrix1,    \* 3x4 camera matrix of view A
    cam_matrix2,    \* 3x4 camera matrix of view B
    triangulated_poses, \* result of triangulate_all_frames, or NotRun
    p1,             \* single-point solve: 2D point in view A
    p2,             \* single-point solve: 2D point in view B
    point_3d,       \* triangulate_point(p1, p2, ...): result, or NotRun
    points_3d,      \* triangulate_points([p1], [p2], ...): result, or NotRun
    rig_args,       \* create_stereo_camera_matrices: <<baseline, focal_length, cx, cy>>
    disparity,      \* depth_from_disparity: the disparity map
    depth_args,     \* depth_from_disparity: <<baseline, focal_length>>
    depth,          \* depth_from_disparity: result, or NotRun
    ply_points,     \* save_point_cloud: points_3d
    ply_colors,     \* save_point_cloud: colors
    ply_file,       \* save_point_cloud: the file written, or NotRun
    frame_width,    \* simulate_second_view: frame_width
    flips,          \* number of times view2_data was produced by a flip
    flipped_keypoints \* stereo_utils.simulate_second_view: result, or NotRun

calibVars == <<objpoints, imgpoints, camera_matrix, dist_coeffs, rvecs, tvecs,
               files, op, ret, solves, calibrated, accepted>>
batchVars == <<view1_data, view2_data, triangulated_poses>>
camVars   == <<cam_matrix1, cam_matrix2>>
pointVars == <<p1, p2, point_3d, points_3d>>
rigVars   == <<rig_args>>
depthVars == <<disparity, depth_args, depth>>
plyVars   == <<ply_points, ply_colors, ply_file>>
flipVars  == <<frame_width, flips, flipped_keypoints>>
restVars  == <<rigVars, depthVars, plyVars, flipVars>>
vars == <<calibVars, batchVars, camVars, pointVars, restVars>>

None   == <<"None">>

\* The result slot of a function: not called yet, or the value it returned.
NotRun == [status |-> "NotRun", value |-> <<>>]
Returned(v) == [status |-> "return", value |-> v]

(***************************************************************************)
(* Bounds of the model.                                                    *)
(***************************************************************************)
MaxImages == 6      \* accepted calibration images
MaxSolves == 2      \* cv2.calibrateCamera invocations
MaxJoint  == 2      \* joint identifiers are 0..MaxJoint
MaxFrames == 2      \* frames per session
MaxEntries == 3     \* joint entries of a session, over all its frames
MaxPixels == 2      \* pixels of a disparity map
MaxPoints == 2      \* points, and colors, of a point cloud
MaxFlips == 2       \* successive flips of one session, or of one frame

(***************************************************************************)
(* Program constants.                                                      *)
(***************************************************************************)
ChessW == 9         \* chessboard_size[0]
ChessH == 6         \* chessboard_size[1]
MinImages == 5      \* calibrate(): len(self.objpoints) < 5
FrameWidth == 640   \* triangulate_3d_pose.py: frame_width
MainCy == 360       \* triangulate_3d_pose.py: cy
MainBaseline == 5   \* triangulate_3d_pose.py: baseline

(***************************************************************************)
(* CameraCalibrator                                                        *)
(***************************************************************************)

\* self.objp: chessboard_size[0] * chessboard_size[1] rows of 3 coordinates.
objp == <<"ndarray", ChessW * ChessH, 3>>

\* Input images: id, (height, width), and whether findChessboardCorners
\* finds the board in it.
Images == { [id |-> "board",   shape |-> <<480, 640>>, found |-> TRUE],
            [id |-> "noboard", shape |-> <<480, 640>>, found |-> FALSE] }

\* image_shape arguments of calibrate(): (height, width).
ImageShapes == { <<480, 640>>, <<720, 1280>> }

\* cv2.cornerSubPix(...): the refined corners, an array of shape (N, 1, 2).
cornerSubPix(image) == <<"ndarray", ChessW * ChessH, 1, 2>>

\* ndarray.shape[0:2]
shape02(a) == <<a[2], a[3]>>

\* image_shape[::-1]
reversed(s) == <<s[2], s[1]>>

Absent == <<"absent">>

\* JSON values of a calibration file.
ListK     == <<"list", "file", 0, 0, 0>>      \* a 3x3 list of numbers
ListD     == <<"list", "filed", 0, 0, 0>>      \* a list of numbers
StrVal    == <<"str", "abc">>                 \* non-numeric data
ShapeVal  == <<"list", 480, 640>>

JsonObj(cm, dc, sh) ==
    [kind |-> "json", camera_matrix |-> cm, dist_coeffs |-> dc, image_shape |-> sh]
NoFile  == [kind |-> "missing", camera_matrix |-> Absent, dist_coeffs |-> Absent,
            image_shape |-> Absent]
NotJson == [kind |-> "text", camera_matrix |-> Absent, dist_coeffs |-> Absent,
            image_shape |-> Absent]

\* Files the program can find on disk before it runs.
InitialFiles ==
    { NoFile, NotJson,
      JsonObj(ListK, ListD, ShapeVal),        \* well-formed
      JsonObj(ListK, Absent, ShapeVal),       \* dist_coeffs missing
      JsonObj(Absent, ListD, ShapeVal),       \* camera_matrix missing
      JsonObj(StrVal, ListD, ShapeVal),       \* non-numeric camera_matrix
      JsonObj(ListK, StrVal, ShapeVal) }      \* non-numeric dist_coeffs

FileNames == {"calibration.json"}

\* np.array(v): a list of numbers becomes a float array, a string a
\* 0-dimensional string array; neither raises.
np_array(v) ==
    IF v[1] = "list" THEN <<"ndarray", "float", v[2], v[3], v[4], v[5]>>
    ELSE <<"ndarray", "str", v[2]>>

\* ndarray.tolist()
tolist(a) ==
    IF a[2] = "float" THEN <<"list", a[3], a[4], a[5], a[6]>>
    ELSE <<"str", a[3]>>

Self == [objpoints |-> objpoints, imgpoints |-> imgpoints,
         camera_matrix |-> camera_matrix, dist_coeffs |-> dist_coeffs,
         rvecs |-> rvecs, tvecs |-> tvecs]

\* Mutant of add_calibration_image: the image points are not stored.
add_calibration_image_noimg(self, image) ==
    IF image.found
    THEN [self |-> [self EXCEPT !.objpoints = Append(@, objp)],
          ret  |-> <<"return", "True", image.id>>]
    ELSE [self |-> self,
          ret  |-> <<"return", "False", image.id>>]

\* add_calibration_image(self, image): the new self and the return value.
add_calibration_image(self, image) ==
    IF image.found
    THEN [self |-> [self EXCEPT !.objpoints = Append(@, objp),
                                !.imgpoints = Append(@, cornerSubPix(image))],
          ret  |-> <<"return", "True", image.id>>]
    ELSE [self |-> self,
          ret  |-> <<"return", "False", image.id>>]

\* cv2.calibrateCamera(objpoints, imgpoints, size, None, None): the solve is
\* external; it returns (rms, K, dist, rvecs, tvecs) or raises cv2.error.
calibrateCamera(objpts, imgpts, size) ==
    [K     |-> <<"ndarray", "float", "solveK", Len(objpts), size[1], size[2]>>,
     dist  |-> <<"ndarray", "float", "solveD", Len(imgpts), size[1], size[2]>>,
     rvecs |-> <<"tuple", Len(objpts)>>,
     tvecs |-> <<"tuple", Len(objpts)>>]

SolveOutcomes == {"rms", "cv2.error"}

\* Mutant of calibrate: the gate is off by one (<= instead of <).
calibrate_offbyone(self, image_shape, out) ==
    IF Len(self.objpoints) <= MinImages
    THEN [self |-> self, ret |-> <<"return", "False">>, solved |-> FALSE]
    ELSE IF out = "cv2.error"
    THEN [self |-> self, ret |-> <<"raise", "cv2.error">>, solved |-> TRUE]
    ELSE LET r == calibrateCamera(self.objpoints, self.imgpoints,
                                  reversed(image_shape))
         IN [self |-> [self EXCEPT !.camera_matrix = r.K,
                                   !.dist_coeffs = r.dist,
                                   !.rvecs = r.rvecs,
                                   !.tvecs = r.tvecs],
             ret |-> <<"return", "rms">>, solved |-> TRUE]

\* calibrate(self, image_shape) under the solver outcome `out`.
calibrate(self, image_shape, out) ==
    IF Len(self.objpoints) < MinImages
    THEN [self |-> self, ret |-> <<"return", "False">>, solved |-> FALSE]
    ELSE IF out = "cv2.error"
    THEN [self |-> self, ret |-> <<"raise", "cv2.error">>, solved |-> TRUE]
    ELSE LET r == calibrateCamera(self.objpoints, self.imgpoints,
                                  reversed(image_shape))
         IN [self |-> [self EXCEPT !.camera_matrix = r.K,
                                   !.dist_coeffs = r.dist,
                                   !.rvecs = r.rvecs,
                                   !.tvecs = r.tvecs],
             ret |-> <<"return", "rms">>, solved |-> TRUE]

\* save_calibration(self, filename): the return value and the file content
\* afterwards (`old` is the content before).
save_calibration(self, old) ==
    IF self.camera_matrix = None
    THEN [ret |-> <<"return", "False">>, file |-> old]
    ELSE IF self.dist_coeffs = None
    THEN [ret |-> <<"raise", "AttributeError">>, file |-> old]
    ELSE IF Len(self.imgpoints) = 0
    THEN [ret |-> <<"raise", "IndexError">>, file |-> old]
    ELSE [ret |-> <<"return", "True">>,
          file |-> JsonObj(tolist(self.camera_matrix),
                           tolist(self.dist_coeffs),
                           <<"list">> \o shape02(self.imgpoints[1]))]

\* Mutant of load_calibration: a load that fails clears the calibration.
load_calibration_reset(self, f) ==
    IF f.kind # "json"
    THEN [self |-> [self EXCEPT !.camera_matrix = None, !.dist_coeffs = None],
          ret  |-> <<"return", "False">>]
    ELSE IF f.camera_matrix = Absent
    THEN [self |-> [self EXCEPT !.camera_matrix = None, !.dist_coeffs = None],
          ret  |-> <<"return", "False">>]
    ELSE IF f.dist_coeffs = Absent
    THEN [self |-> [self EXCEPT !.camera_matrix = np_array(f.camera_matrix)],
          ret  |-> <<"return", "False">>]
    ELSE [self |-> [self EXCEPT !.camera_matrix = np_array(f.camera_matrix),
                                !.dist_coeffs = np_array(f.dist_coeffs)],
          ret  |-> <<"return", "True">>]

\* load_calibration(self, filename) on a file of content `f`.
load_calibration(self, f) ==
    IF f.kind # "json"
    THEN [self |-> self, ret |-> <<"return", "False">>]
    ELSE IF f.camera_matrix = Absent
    THEN [self |-> self, ret |-> <<"return", "False">>]
    ELSE IF f.dist_coeffs = Absent
    THEN [self |-> [self EXCEPT !.camera_matrix = np_array(f.camera_matrix)],
          ret  |-> <<"return", "False">>]
    ELSE [self |-> [self EXCEPT !.camera_matrix = np_array(f.camera_matrix),
                                !.dist_coeffs = np_array(f.dist_coeffs)],
          ret  |-> <<"return", "True">>]

\* Mutant of undistort_image: the camera_matrix is None test is missing.
undistort_image_nocheck(self, image) ==
    IF self.camera_matrix # None /\ self.camera_matrix[2] = "float"
    THEN <<"return", "undistorted", image.id>>
    ELSE <<"raise", "cv2.error", image.id>>

\* undistort_image(self, image)
undistort_image(self, image) ==
    IF self.camera_matrix = None
    THEN <<"return", "image", image.id>>
    ELSE IF self.camera_matrix[2] # "float"
            \/ (self.dist_coeffs # None /\ self.dist_coeffs[2] # "float")
    THEN <<"raise", "cv2.error", image.id>>
    ELSE <<"return", "undistorted", image.id>>

(***************************************************************************)
(* Linear algebra of the DLT solve.  Vectors are tuples of integers; a     *)
(* homogeneous solution is kept as an integer direction and dehomogenized  *)
(* exactly, so a coordinate is a fraction <<"num", n, d>> or, when the 4th *)
(* coordinate is 0, what the float division yields: inf, -inf or nan.      *)
(***************************************************************************)

Abs(n) == IF n < 0 THEN -n ELSE n

RECURSIVE Gcd(_, _)
Gcd(a, b) == IF b = 0 THEN Abs(a) ELSE Gcd(b, a % Abs(b))

Scale(k, v) == <<k * v[1], k * v[2], k * v[3], k * v[4]>>
VSub(u, v)  == <<u[1] - v[1], u[2] - v[2], u[3] - v[3], u[4] - v[4]>>
VAdd(u, v)  == <<u[1] + v[1], u[2] + v[2], u[3] + v[3], u[4] + v[4]>>
Dot4(u, v)  == u[1] * v[1] + u[2] * v[2] + u[3] * v[3] + u[4] * v[4]
Zero4       == <<0, 0, 0, 0>>

\* v divided by the gcd of its entries: the same direction, smallest integers.
Primitive(v) ==
    LET g == Gcd(Gcd(v[1], v[2]), Gcd(v[3], v[4]))
    IN IF g = 0 THEN v
       ELSE <<v[1] \div g, v[2] \div g, v[3] \div g, v[4] \div g>>

Det3(a, b, c) ==
      a[1] * (b[2] * c[3] - b[3] * c[2])
    - a[2] * (b[1] * c[3] - b[3] * c[1])
    + a[3] * (b[1] * c[2] - b[2] * c[1])

\* v without its i-th entry.
Drop(v, i) ==
    IF i = 1 THEN <<v[2], v[3], v[4]>>
    ELSE IF i = 2 THEN <<v[1], v[3], v[4]>>
    ELSE IF i = 3 THEN <<v[1], v[2], v[4]>>
    ELSE <<v[1], v[2], v[3]>>

\* The vector orthogonal to u, v and w (4-dimensional cross product).
Cross4(u, v, w) ==
    Primitive(<< Det3(Drop(u, 1), Drop(v, 1), Drop(w, 1)),
                -Det3(Drop(u, 2), Drop(v, 2), Drop(w, 2)),
                 Det3(Drop(u, 3), Drop(v, 3), Drop(w, 3)),
                -Det3(Drop(u, 4), Drop(v, 4), Drop(w, 4)) >>)

Unit4(k) == [i \in 1..4 |-> IF i = k THEN 1 ELSE 0]

\* The rows of A reduced by their gcd: the null space of A is unchanged.
Rows(A) == <<Primitive(A[1]), Primitive(A[2]), Primitive(A[3]), Primitive(A[4])>>

\* np.linalg.svd(A)[2][-1], the right-singular vector of the smallest
\* singular value, as a direction: every vector the decomposition may return.
\*  - rank 4: no exact null vector (a least-squares fit), not represented;
\*  - rank 3: the null vector, of either sign: the cross product of three
\*    independent rows;
\*  - rank 2: any vector of the 2-dimensional null space: the cross products
\*    of two rows with a unit vector span it, and they and their sums and
\*    differences stand for its vectors.
svd_last_row(A) ==
    LET R  == Rows(A)
        C  == << Cross4(R[2], R[3], R[4]), Cross4(R[1], R[3], R[4]),
                 Cross4(R[1], R[2], R[4]), Cross4(R[1], R[2], R[3]) >>
        n3 == { C[t] : t \in 1..4 } \ {Zero4}
        b2 == { Cross4(R[ij[1]], R[ij[2]], Unit4(k)) :
                  ij \in {<<1, 2>>, <<1, 3>>, <<1, 4>>, <<2, 3>>, <<2, 4>>, <<3, 4>>},
                  k \in 1..4 } \ {Zero4}
    IN IF \E t \in 1..4 : Dot4(R[t], C[t]) # 0 THEN {}
       ELSE IF n3 # {} THEN n3 \cup { Scale(-1, X) : X \in n3 }
       ELSE { Primitive(VAdd(Scale(a, X1), Scale(b, X2))) :
                X1 \in b2, X2 \in b2, a \in {-1, 0, 1}, b \in {-1, 0, 1} } \ {Zero4}

\* n / w in float arithmetic, exactly.
FloatDiv(n, w) ==
    IF w = 0
    THEN (IF n > 0 THEN <<"inf">> ELSE IF n < 0 THEN <<"-inf">> ELSE <<"nan">>)
    ELSE LET g == Gcd(n, w)
             sg == IF w < 0 THEN -1 ELSE 1
         IN <<"num", sg * (n \div g), sg * (w \div g)>>

\* The implementation-defined choice among the vectors the SVD may return.
Pick(S, tie) == IF tie \in S THEN tie ELSE CHOOSE X \in S : TRUE

(***************************************************************************)
(* utils/triangulate_3d_pose.py and utils/stereo_utils.py                  *)
(***************************************************************************)

\* Mutant of create_stereo_camera_matrices: the translation of the right
\* camera has the wrong sign.
create_stereo_camera_matrices_plus(baseline, focal_length, cx, cy) ==
    << << <<focal_length, 0, cx, 0>>,
          <<0, focal_length, cy, 0>>,
          <<0, 0, 1, 0>> >>,
       << <<focal_length, 0, cx, focal_length * baseline>>,
          <<0, focal_length, cy, 0>>,
          <<0, 0, 1, 0>> >> >>

\* create_stereo_camera_matrices(baseline, focal_length, cx, cy)
create_stereo_camera_matrices(baseline, focal_length, cx, cy) ==
    << << <<focal_length, 0, cx, 0>>,
          <<0, focal_length, cy, 0>>,
          <<0, 0, 1, 0>> >>,
       << <<focal_length, 0, cx, -focal_length * baseline>>,
          <<0, focal_length, cy, 0>>,
          <<0, 0, 1, 0>> >> >>

\* Mutant of DLT: each image point is paired with the other camera's matrix.
DLT_crossed(q1, q2, M1, M2) ==
    << VSub(Scale(q2[1], M1[3]), M1[1]),
       VSub(Scale(q2[2], M1[3]), M1[2]),
       VSub(Scale(q1[1], M2[3]), M2[1]),
       VSub(Scale(q1[2], M2[3]), M2[2]) >>

\* The linear system A of triangulate_point.
DLT(q1, q2, M1, M2) ==
    << VSub(Scale(q1[1], M1[3]), M1[1]),
       VSub(Scale(q1[2], M1[3]), M1[2]),
       VSub(Scale(q2[1], M2[3]), M2[1]),
       VSub(Scale(q2[2], M2[3]), M2[2]) >>

\* Mutant of Dehomogenize: the division by the 4th coordinate is left out.
Dehomogenize_nodiv(X) == <<FloatDiv(X[1], 1), FloatDiv(X[2], 1), FloatDiv(X[3], 1)>>

\* X = X / X[3]; return X[:3]
Dehomogenize(X) == <<FloatDiv(X[1], X[4]), FloatDiv(X[2], X[4]), FloatDiv(X[3], X[4])>>

\* triangulate_point(p1, p2, cam_matrix1, cam_matrix2)
triangulate_point(q1, q2, M1, M2, tie) ==
    LET A  == DLT(q1, q2, M1, M2)
        X  == Pick(svd_last_row(A), tie)
    IN Dehomogenize(X)

Min(a, b) == IF a < b THEN a ELSE b

\* Mutant of zip: pads the shorter sequence with empty frames up to the
\* longer one (itertools.zip_longest).
Zip_longest(a, b) ==
    [i \in 1..(IF Len(a) < Len(b) THEN Len(b) ELSE Len(a)) |->
        <<IF i <= Len(a) THEN a[i] ELSE <<>>, IF i <= Len(b) THEN b[i] ELSE <<>> >>]

\* zip(a, b)
Zip(a, b) == [i \in 1..Min(Len(a), Len(b)) |-> <<a[i], b[i]>>]

\* triangulate_points(points_left, points_right, camera_matrix_left,
\* camera_matrix_right)
triangulate_points(points_left, points_right, ML, MR, tie) ==
    LET z == Zip(points_left, points_right)
    IN [i \in DOMAIN z |->
          Dehomogenize(Pick(svd_last_row(DLT(z[i][1], z[i][2], ML, MR)), tie))]

\* A frame is a dict in insertion order: a sequence of entries with distinct
\* names.  The name i stands for the key "joint_<i>".
Has(frame, name) == \E k \in DOMAIN frame : frame[k].name = name
Get(frame, name) == frame[CHOOSE k \in DOMAIN frame : frame[k].name = name]

\* d[name] = value on a dict in insertion order.
DictSet(d, name, value) ==
    IF Has(d, name)
    THEN [k \in DOMAIN d |-> IF d[k].name = name THEN value ELSE d[k]]
    ELSE Append(d, value)

\* One joint of the inner loop of triangulate_all_frames: joints_3d[name] = ...
Joint3d(name, e1, e2, M1, M2, tie) ==
    LET point == triangulate_point(<<e1.x, e1.y>>, <<e2.x, e2.y>>, M1, M2, tie)
    IN [name |-> name, X |-> point[1], Y |-> point[2], Z |-> point[3]]

\* The inner loop of triangulate_all_frames over frame1.keys(), from key k on.
RECURSIVE joints_loop(_, _, _, _, _, _, _)
joints_loop(frame1, frame2, k, joints_3d, M1, M2, tie) ==
    IF k > Len(frame1) THEN joints_3d
    ELSE LET joint_name == frame1[k].name IN
         IF ~Has(frame2, joint_name)
         THEN joints_loop(frame1, frame2, k + 1, joints_3d, M1, M2, tie)
         ELSE joints_loop(frame1, frame2, k + 1,
                  DictSet(joints_3d, joint_name,
                          Joint3d(joint_name, frame1[k], Get(frame2, joint_name),
                                  M1, M2, tie)),
                  M1, M2, tie)

\* Mutant of triangulate_all_frames: the inner loop runs over frame2.keys()
\* and tests membership in frame1.
triangulate_all_frames_swapped(view1, view2, M1, M2, tie) ==
    LET z == Zip(view1, view2)
    IN [i \in DOMAIN z |->
          LET f1 == z[i][1]
              f2 == z[i][2]
              keys == SelectSeq(f2, LAMBDA e : Has(f1, e.name))
          IN [k \in DOMAIN keys |->
                Joint3d(keys[k].name, Get(f1, keys[k].name), keys[k], M1, M2, tie)]]

\* Mutant of triangulate_all_frames: a frame without joints is not appended.
triangulate_all_frames_skipempty(view1, view2, M1, M2, tie) ==
    LET z == Zip(view1, view2)
        all == [i \in DOMAIN z |-> joints_loop(z[i][1], z[i][2], 1, <<>>, M1, M2, tie)]
    IN SelectSeq(all, LAMBDA joints_3d : joints_3d # <<>>)

\* triangulate_all_frames(view1_data, view2_data, cam_matrix1, cam_matrix2)
triangulate_all_frames(view1, view2, M1, M2, tie) ==
    LET z == Zip(view1, view2)
    IN [i \in DOMAIN z |-> joints_loop(z[i][1], z[i][2], 1, <<>>, M1, M2, tie)]

\* __main__ of triangulate_3d_pose.py: the two camera matrices.
MainFocal == FrameWidth
MainCx    == FrameWidth \div 2
MainCam1 == << <<MainFocal, 0, MainCx, 0>>,
               <<0, MainFocal, MainCy, 0>>,
               <<0, 0, 1, 0>> >>
MainCam2 == << <<MainFocal, 0, MainCx, -MainFocal * MainBaseline>>,
               <<0, MainFocal, MainCy, 0>>,
               <<0, 0, 1, 0>> >>

(***************************************************************************)
(* Inputs of the batch triangulation.                                      *)
(***************************************************************************)
Joints == 0..MaxJoint

\* Joint j of view A sits at pixel (160 (j + 1), 120 (j + 1)); view B sees it
\* in the same row, d columns to the left (d = 0: no disparity).
EntryA(j)    == [name |-> j, x |-> 160 * (j + 1), y |-> 120 * (j + 1),
                 z |-> 0, vis |-> 1]
EntryB(j, d) == [name |-> j, x |-> 160 * (j + 1) - d, y |-> 120 * (j + 1),
                 z |-> 0, vis |-> 1]

\* Every insertion order of every subset of the joints.
KeyOrders ==
    { s \in UNION { [1..n -> Joints] : n \in 0..(MaxJoint + 1) } :
        \A a \in DOMAIN s, b \in DOMAIN s : a # b => s[a] # s[b] }

RECURSIVE Sorted(_)
Sorted(S) ==
    IF S = {} THEN <<>>
    ELSE LET m == CHOOSE x \in S : \A y \in S : x <= y
         IN <<m>> \o Sorted(S \ {m})

FramesA == { [k \in DOMAIN s |-> EntryA(s[k])] : s \in KeyOrders }
FramesB ==
    UNION { { [k \in 1..Cardinality(S) |-> EntryB(Sorted(S)[k], d[Sorted(S)[k]])] :
                d \in [S -> {0, 160}] } : S \in SUBSET Joints }

RECURSIVE EntryCount(_)
EntryCount(session) ==
    IF session = <<>> THEN 0 ELSE Len(Head(session)) + EntryCount(Tail(session))

Sessions(F) ==
    { s \in UNION { [1..n -> F] : n \in 0..MaxFrames } : EntryCount(s) <= MaxEntries }

NameSet(frame) == { frame[k].name : k \in DOMAIN frame }
NameSeq(frame) == [k \in DOMAIN frame |-> frame[k].name]

Entries(frame) == { frame[k] : k \in DOMAIN frame }

\* The matched entry pairs of two sessions.
Correspondences(view1, view2) ==
    LET z == Zip(view1, view2)
    IN UNION { { <<e, Get(z[i][2], e.name)>> :
                   e \in { e \in Entries(z[i][1]) : Has(z[i][2], e.name) } } :
               i \in DOMAIN z }

\* The vectors the SVD may return for the correspondences of a batch whose
\* 4th coordinate is 0, and one that stands for "no preference".
BatchTies(view1, view2, M1, M2) ==
    {Zero4} \cup
    { X \in UNION { svd_last_row(DLT(<<c[1].x, c[1].y>>, <<c[2].x, c[2].y>>, M1, M2)) :
                      c \in Correspondences(view1, view2) } :
        X[4] = 0 }

(***************************************************************************)
(* Inputs of the single-point solve.                                       *)
(***************************************************************************)
PointRigs ==
    { create_stereo_camera_matrices(b, f, MainCx, MainCy) :
        b \in {0, MainBaseline, 2 * MainBaseline}, f \in {MainCx, MainFocal} }
Points == { <<x, y>> : x \in {80, 100, 160, 320}, y \in {200, 360} }

TriangulateAllFrames ==
    /\ triangulated_poses = NotRun
    /\ \E tie \in BatchTies(view1_data, view2_data, cam_matrix1, cam_matrix2) :
          triangulated_poses' =
              Returned(triangulate_all_frames(view1_data, view2_data,
                                              cam_matrix1, cam_matrix2, tie))
    /\ UNCHANGED <<view1_data, view2_data, cam_matrix1, cam_matrix2>>

TriangulatePoint ==
    /\ point_3d = NotRun
    /\ \E tie \in svd_last_row(DLT(p1, p2, cam_matrix1, cam_matrix2)) :
          point_3d' = Returned(triangulate_point(p1, p2, cam_matrix1, cam_matrix2, tie))
    /\ UNCHANGED <<p1, p2, points_3d, cam_matrix1, cam_matrix2>>

TriangulatePoints ==
    /\ points_3d = NotRun
    /\ \E tie \in svd_last_row(DLT(p1, p2, cam_matrix1, cam_matrix2)) :
          points_3d' = Returned(triangulate_points(<<p1>>, <<p2>>,
                                                   cam_matrix1, cam_matrix2, tie))
    /\ UNCHANGED <<p1, p2, point_3d, cam_matrix1, cam_matrix2>>

(***************************************************************************)
(* Inputs of create_stereo_camera_matrices.                                *)
(***************************************************************************)
RigArgs ==
    { <<b, f, cx, cy>> : b \in {0, MainBaseline, 2 * MainBaseline},
                         f \in {MainCx, MainFocal, 2 * MainFocal},
                         cx \in {0, MainCx, MainFocal},
                         cy \in {240, MainCy} }

NoMatrix == <<>>

CreateStereoCameraMatrices ==
    /\ cam_matrix1 = NoMatrix
    /\ LET r == create_stereo_camera_matrices(rig_args[1], rig_args[2],
                                              rig_args[3], rig_args[4])
       IN /\ cam_matrix1' = r[1]
          /\ cam_matrix2' = r[2]
    /\ UNCHANGED rig_args

(***************************************************************************)
(* utils/stereo_utils.py: disparity and depth.  A map is its element type  *)
(* and its pixels; a pixel is a fraction <<n, d>> with d > 0.              *)
(***************************************************************************)

\* Storing the value v in an array of the given element type: an integer
\* array keeps the integer part.
Cast(dtype, v) ==
    IF dtype = "int16"
    THEN <<(IF v[1] >= 0 THEN v[1] \div v[2] ELSE -((-v[1]) \div v[2])), 1>>
    ELSE v

\* The literal 0.1 of depth_from_disparity.
MaskValue == <<1, 10>>

\* depth_from_disparity(disparity, baseline, focal_length): the depth map,
\* and the argument as the call leaves it.
depth_from_disparity(disp, baseline, focal_length) ==
    LET disparity_masked ==
            [i \in DOMAIN disp.data |->
                IF disp.data[i][1] = 0 THEN Cast(disp.dtype, MaskValue)
                ELSE disp.data[i]]
    IN [depth |-> [i \in DOMAIN disp.data |->
                     FloatDiv(baseline * focal_length * disparity_masked[i][2],
                              disparity_masked[i][1])],
        disparity |-> disp]

\* Pixel values of the maps a caller passes, and of the raw disparity of
\* cv2.StereoBM (16-bit integers, 16 per pixel of disparity, negative where
\* no match was found).
FloatPixels == { <<-1, 1>>, <<0, 1>>, <<1, 20>>, <<1, 1>> }
Int16Pixels == { <<-16, 1>>, <<0, 1>>, <<16, 1>> }

Maps(dtype, pixels) ==
    { [dtype |-> dtype, data |-> d] :
        d \in UNION { [1..n -> pixels] : n \in 1..MaxPixels } }

\* compute_disparity_map(left_image, right_image, ...)[0]: the block
\* matching is external; its result is some 16-bit integer map.
compute_disparity_map == Maps("int16", Int16Pixels)

DepthArgs == { <<MainBaseline, MainFocal>>, <<2 * MainBaseline, MainFocal>> }

ComputeDisparityMap ==
    /\ depth = NotRun
    /\ disparity.dtype = "float32"
    /\ disparity' \in compute_disparity_map
    /\ UNCHANGED <<depth_args, depth>>

DepthFromDisparity ==
    /\ depth = NotRun
    /\ LET r == depth_from_disparity(disparity, depth_args[1], depth_args[2])
       IN /\ depth' = Returned(r.depth)
          /\ disparity' = r.disparity
    /\ UNCHANGED depth_args

(***************************************************************************)
(* Inputs of the round trip: image points that are the projections of a    *)
(* 3D point through the two matrices of a rig.                             *)
(***************************************************************************)

\* The homogeneous image point M (X, Y, Z, 1) of the 3D point P.
Homogeneous(P, M) ==
    LET Ph == <<P[1], P[2], P[3], 1>>
    IN <<Dot4(M[1], Ph), Dot4(M[2], Ph), Dot4(M[3], Ph)>>

\* The pixel of P in the camera M: the linear system of triangulate_point
\* states p[0] * (M[2] . P) = M[0] . P and p[1] * (M[2] . P) = M[1] . P.
Project(P, M) ==
    LET h == Homogeneous(P, M) IN <<h[1] \div h[3], h[2] \div h[3]>>

\* 3D points in front of both cameras whose pixels are whole numbers.
Points3D == { <<X, Y, Z>> : X \in {0, 5, 10}, Y \in {-5, 0, 5}, Z \in {20, 40, 80} }

RoundTripRigs ==
    { <<b, f, MainCx, MainCy>> : b \in {0, MainBaseline, 2 * MainBaseline},
                                 f \in {MainCx, MainFocal} }

(***************************************************************************)
(* The end-to-end scenario: one frame per view with the joint 0, seen at   *)
(* (100, 200) in view A and at (80, 200) in view B, and the rig of         *)
(* baseline 10 and focal length 640 at any principal point.                *)
(***************************************************************************)
ScenarioViewA == << << [name |-> 0, x |-> 100, y |-> 200, z |-> 0, vis |-> 1] >> >>
ScenarioViewB == << << [name |-> 0, x |-> 80, y |-> 200, z |-> 0, vis |-> 1] >> >>
ScenarioRigs ==
    { <<2 * MainBaseline, MainFocal, cx, cy>> :
        cx \in {0, 80, 100, 160, 240, MainCx, FrameWidth},
        cy \in {0, 100, 180, 200, 240, MainCy, 480, 720} }

(***************************************************************************)
(* utils/stereo_utils.py: the point-cloud export.                          *)
(***************************************************************************)

\* save_point_cloud(points_3d, colors, filename): the file written, as the
\* vertex count of its header and its vertex lines.
save_point_cloud(pts, colors) ==
    LET z == Zip(pts, colors)
    IN [vertex |-> Len(pts),
        lines  |-> [i \in DOMAIN z |->
                      <<z[i][1][1], z[i][1][2], z[i][1][3],
                        z[i][2][1], z[i][2][2], z[i][2][3]>>]]

CloudPoints == { <<0, 0, 320>>, <<-110, -80, 320>>, <<5, -5, 40>> }
CloudColors == { <<255, 255, 255>>, <<255, 0, 0>> }
Upto(S, n) == UNION { [1..k -> S] : k \in 0..n }

SavePointCloud ==
    /\ ply_file = NotRun
    /\ ply_file' = Returned(save_point_cloud(ply_points, ply_colors))
    /\ UNCHANGED <<ply_points, ply_colors>>

(***************************************************************************)
(* utils/simulate_second_view.py and simulate_second_view of               *)
(* utils/stereo_utils.py.                                                  *)
(***************************************************************************)

\* The frame height that the vertical flip of stereo_utils assumes.
frame_height == 480

\* Mutant of flip_keypoints_horizontally: mirrors about x = 0.
flip_keypoints_horizontally_about0(keypoints, w) ==
    [k \in DOMAIN keypoints |->
        [name |-> keypoints[k].name,
         x    |-> -keypoints[k].x,
         y    |-> keypoints[k].y,
         z    |-> keypoints[k].z,
         vis  |-> keypoints[k].vis]]

\* flip_keypoints_horizontally(keypoints, frame_width)
flip_keypoints_horizontally(keypoints, w) ==
    [k \in DOMAIN keypoints |->
        [name |-> keypoints[k].name,
         x    |-> w - keypoints[k].x,
         y    |-> keypoints[k].y,
         z    |-> keypoints[k].z,
         vis  |-> keypoints[k].vis]]

\* simulate_second_view(json_path, frame_width) of simulate_second_view.py:
\* the content of the _flipped.json file, from the content of json_path.
simulate_second_view(original_data, w) ==
    [i \in DOMAIN original_data |-> flip_keypoints_horizontally(original_data[i], w)]

\* simulate_second_view(keypoints, frame_width, flip_horizontally) of
\* stereo_utils.py
stereo_simulate_second_view(keypoints, w, flip_horizontally) ==
    IF flip_horizontally
    THEN [k \in DOMAIN keypoints |->
            [name |-> keypoints[k].name,
             x    |-> w - keypoints[k].x,
             y    |-> keypoints[k].y,
             z    |-> keypoints[k].z,
             vis  |-> keypoints[k].vis]]
    ELSE [k \in DOMAIN keypoints |->
            [name |-> keypoints[k].name,
             x    |-> keypoints[k].x,
             y    |-> frame_height - keypoints[k].y,
             z    |-> keypoints[k].z,
             vis  |-> keypoints[k].vis]]

FrameWidths == {FrameWidth, 2 * FrameWidth}

\* simulate_second_view.py run on the session, then again on its own output.
SimulateSecondView ==
    /\ flips < MaxFlips
    /\ view2_data' = simulate_second_view(IF flips = 0 THEN view1_data ELSE view2_data,
                                          frame_width)
    /\ flips' = flips + 1
    /\ UNCHANGED <<view1_data, triangulated_poses, cam_matrix1, cam_matrix2,
                   frame_width, flipped_keypoints>>

\* stereo_utils.simulate_second_view on one frame of the session, then again
\* on its own output with the same arguments.
StereoSimulateSecondView ==
    /\ IF flipped_keypoints.status = "NotRun"
       THEN \E i \in DOMAIN view1_data, flip_horizontally \in BOOLEAN :
               flipped_keypoints' =
                   Returned([frame |-> i, flip_horizontally |-> flip_horizontally,
                             calls |-> 1,
                             keypoints |-> stereo_simulate_second_view(
                                               view1_data[i], frame_width,
                                               flip_horizontally)])
       ELSE /\ flipped_keypoints.value.calls < MaxFlips
            /\ flipped_keypoints' =
                   Returned([flipped_keypoints.value EXCEPT
                               !.calls = @ + 1,
                               !.keypoints = stereo_simulate_second_view(
                                                 @, frame_width,
                                                 flipped_keypoints.value.flip_horizontally)])
    /\ UNCHANGED <<view1_data, view2_data, triangulated_poses, cam_matrix1,
                   cam_matrix2, frame_width, flips>>

SetSelf(s) ==
    /\ objpoints' = s.objpoints
    /\ imgpoints' = s.imgpoints
    /\ camera_matrix' = s.camera_matrix
    /\ dist_coeffs' = s.dist_coeffs
    /\ rvecs' = s.rvecs
    /\ tvecs' = s.tvecs

AddCalibrationImage ==
    \E image \in Images :
        LET r == add_calibration_image(Self, image) IN
        /\ Len(r.self.objpoints) <= MaxImages
        /\ SetSelf(r.self)
        /\ op' = <<"add_calibration_image", image.id>>
        /\ ret' = r.ret
        /\ accepted' = accepted + (IF image.found THEN 1 ELSE 0)
        /\ UNCHANGED <<files, solves, calibrated>>

Calibrate ==
    \E image_shape \in ImageShapes, out \in SolveOutcomes :
        LET r == calibrate(Self, image_shape, out) IN
        /\ solves + (IF r.solved THEN 1 ELSE 0) <= MaxSolves
        /\ SetSelf(r.self)
        /\ op' = <<"calibrate", "shape">>
        /\ ret' = r.ret
        /\ solves' = solves + (IF r.solved THEN 1 ELSE 0)
        /\ calibrated' = IF r.ret = <<"return", "rms">>
                         THEN <<"shape", image_shape[1], image_shape[2]>>
                         ELSE calibrated
        /\ UNCHANGED <<files, accepted>>

SaveCalibration ==
    \E filename \in FileNames :
        LET r == save_calibration(Self, files[filename]) IN
        /\ files' = [files EXCEPT ![filename] = r.file]
        /\ op' = <<"save_calibration", filename>>
        /\ ret' = r.ret
        /\ UNCHANGED <<objpoints, imgpoints, camera_matrix, dist_coeffs,
                       rvecs, tvecs, solves, calibrated, accepted>>

LoadCalibration ==
    \E filename \in FileNames :
        LET r == load_calibration(Self, files[filename]) IN
        /\ SetSelf(r.self)
        /\ op' = <<"load_calibration", filename>>
        /\ ret' = r.ret
        /\ UNCHANGED <<files, solves, calibrated, accepted>>

UndistortImage ==
    \E image \in Images :
        /\ op' = <<"undistort_image", image.id>>
        /\ ret' = undistort_image(Self, image)
        /\ UNCHANGED <<objpoints, imgpoints, camera_matrix, dist_coeffs,
                       rvecs, tvecs, files, solves, calibrated, accepted>>

CalibInit ==
    /\ objpoints = <<>>
    /\ imgpoints = <<>>
    /\ camera_matrix = None
    /\ dist_coeffs = None
    /\ rvecs = None
    /\ tvecs = None
    /\ files \in [FileNames -> InitialFiles]
    /\ op = <<"__init__", "none">>
    /\ ret = <<"return", "None">>
    /\ solves = 0
    /\ calibrated = None
    /\ accepted = 0

\* A specification runs one component; the others stay as constructed.
CalibIdle ==
    /\ CalibInit
    /\ files = [n \in FileNames |-> NoFile]

BatchIdle ==
    /\ view1_data = <<>>
    /\ view2_data = <<>>
    /\ triangulated_poses = NotRun

PointIdle ==
    /\ p1 = <<0, 0>>
    /\ p2 = <<0, 0>>
    /\ point_3d = NotRun
    /\ points_3d = NotRun

CamIdle ==
    /\ cam_matrix1 = MainCam1
    /\ cam_matrix2 = MainCam2

RigIdle == rig_args = <<MainBaseline, MainFocal, MainCx, MainCy>>

DepthIdle ==
    /\ disparity = [dtype |-> "float32", data |-> <<>>]
    /\ depth_args = <<MainBaseline, MainFocal>>
    /\ depth = NotRun

PlyIdle ==
    /\ ply_points = <<>>
    /\ ply_colors = <<>>
    /\ ply_file = NotRun

FlipIdle ==
    /\ frame_width = FrameWidth
    /\ flips = 0
    /\ flipped_keypoints = NotRun

RestIdle == RigIdle /\ DepthIdle /\ PlyIdle /\ FlipIdle

BatchInit ==
    /\ view1_data \in Sessions(FramesA)
    /\ view2_data \in Sessions(FramesB)
    /\ triangulated_poses = NotRun
    /\ cam_matrix1 = MainCam1
    /\ cam_matrix2 = MainCam2

\* The correspondences are exact: the two image points are projections of
\* one 3D point or direction, so A has a null vector.
PointInit ==
    /\ \E rig \in PointRigs : cam_matrix1 = rig[1] /\ cam_matrix2 = rig[2]
    /\ p1 \in Points
    /\ p2 \in Points
    /\ svd_last_row(DLT(p1, p2, cam_matrix1, cam_matrix2)) # {}
    /\ point_3d = NotRun
    /\ points_3d = NotRun

Init == CalibInit /\ BatchIdle /\ PointIdle /\ CamIdle /\ RestIdle

Next ==
    \/ AddCalibrationImage /\ UNCHANGED <<batchVars, camVars, pointVars, restVars>>
    \/ Calibrate /\ UNCHANGED <<batchVars, camVars, pointVars, restVars>>
    \/ SaveCalibration /\ UNCHANGED <<batchVars, camVars, pointVars, restVars>>
    \/ LoadCalibration /\ UNCHANGED <<batchVars, camVars, pointVars, restVars>>
    \/ UndistortImage /\ UNCHANGED <<batchVars, camVars, pointVars, restVars>>

Spec == Init /\ [][Next]_vars

InitBatch == CalibIdle /\ BatchInit /\ PointIdle /\ RestIdle
NextBatch == TriangulateAllFrames /\ UNCHANGED <<calibVars, pointVars, restVars>>
SpecBatch == InitBatch /\ [][NextBatch]_vars

InitPoint == CalibIdle /\ BatchIdle /\ PointInit /\ RestIdle
NextPoint ==
    \/ TriangulatePoint /\ UNCHANGED <<calibVars, batchVars, restVars>>
    \/ TriangulatePoints /\ UNCHANGED <<calibVars, batchVars, restVars>>
SpecPoint == InitPoint /\ [][NextPoint]_vars

InitRoundTrip ==
    /\ CalibIdle /\ BatchIdle /\ DepthIdle /\ PlyIdle /\ FlipIdle
    /\ rig_args \in RoundTripRigs
    /\ LET r == create_stereo_camera_matrices(rig_args[1], rig_args[2], rig_args[3], rig_args[4])
       IN /\ cam_matrix1 = r[1]
          /\ cam_matrix2 = r[2]
    /\ \E P \in Points3D :
          /\ \A M \in {cam_matrix1, cam_matrix2} :
                /\ Homogeneous(P, M)[1] % Homogeneous(P, M)[3] = 0
                /\ Homogeneous(P, M)[2] % Homogeneous(P, M)[3] = 0
          /\ p1 = Project(P, cam_matrix1)
          /\ p2 = Project(P, cam_matrix2)
    /\ point_3d = NotRun
    /\ points_3d = NotRun
SpecRoundTrip == InitRoundTrip /\ [][NextPoint]_vars

InitScenario ==
    /\ CalibIdle /\ PointIdle /\ DepthIdle /\ PlyIdle /\ FlipIdle
    /\ rig_args \in ScenarioRigs
    /\ LET r == create_stereo_camera_matrices(rig_args[1], rig_args[2], rig_args[3], rig_args[4])
       IN /\ cam_matrix1 = r[1]
          /\ cam_matrix2 = r[2]
    /\ view1_data = ScenarioViewA
    /\ view2_data = ScenarioViewB
    /\ triangulated_poses = NotRun
SpecScenario == InitScenario /\ [][NextBatch]_vars

InitPly ==
    /\ CalibIdle /\ BatchIdle /\ PointIdle /\ CamIdle /\ RigIdle /\ DepthIdle /\ FlipIdle
    /\ ply_points \in Upto(CloudPoints, MaxPoints)
    /\ ply_colors \in Upto(CloudColors, MaxPoints)
    /\ ply_file = NotRun
NextPly ==
    SavePointCloud
      /\ UNCHANGED <<calibVars, batchVars, camVars, pointVars, rigVars, depthVars, flipVars>>
SpecPly == InitPly /\ [][NextPly]_vars

InitFlip ==
    /\ CalibIdle /\ PointIdle /\ CamIdle /\ RigIdle /\ DepthIdle /\ PlyIdle
    /\ view1_data \in Sessions(FramesA)
    /\ view2_data = <<>>
    /\ triangulated_poses = NotRun
    /\ frame_width \in FrameWidths
    /\ flips = 0
    /\ flipped_keypoints = NotRun
NextFlip ==
    \/ SimulateSecondView
         /\ UNCHANGED <<calibVars, pointVars, rigVars, depthVars, plyVars>>
    \/ StereoSimulateSecondView
         /\ UNCHANGED <<calibVars, pointVars, rigVars, depthVars, plyVars>>
    \/ /\ flips >= 1
       /\ TriangulateAllFrames
       /\ UNCHANGED <<calibVars, pointVars, rigVars, depthVars, plyVars, flipVars>>
SpecFlip == InitFlip /\ [][NextFlip]_vars

InitRig ==
    /\ CalibIdle /\ BatchIdle /\ PointIdle /\ DepthIdle /\ PlyIdle /\ FlipIdle
    /\ rig_args \in RigArgs
    /\ cam_matrix1 = NoMatrix
    /\ cam_matrix2 = NoMatrix
NextRig ==
    CreateStereoCameraMatrices
        /\ UNCHANGED <<calibVars, batchVars, pointVars, depthVars, plyVars, flipVars>>
SpecRig == InitRig /\ [][NextRig]_vars

InitDepth ==
    /\ CalibIdle /\ BatchIdle /\ PointIdle /\ CamIdle /\ RigIdle /\ PlyIdle /\ FlipIdle
    /\ disparity \in Maps("float32", FloatPixels) \cup Maps("int16", Int16Pixels)
    /\ depth_args \in DepthArgs
    /\ depth = NotRun
NextDepth ==
    \/ ComputeDisparityMap
         /\ UNCHANGED <<calibVars, batchVars, camVars, pointVars, rigVars, plyVars, flipVars>>
    \/ DepthFromDisparity
         /\ UNCHANGED <<calibVars, batchVars, camVars, pointVars, rigVars, plyVars, flipVars>>
SpecDepth == InitDepth /\ [][NextDepth]_vars

(***************************************************************************)
(* Properties of the calibrator (specification Spec).                      *)
(***************************************************************************)

\* C1: calibrate() with fewer than 5 accepted images returns False, runs no
\* solve and leaves camera_matrix and dist_coeffs as they were; with 5 or
\* more it invokes the solve.
C1_CalibrationGating ==
    [][ op'[1] = "calibrate" =>
          IF accepted < 5
          THEN /\ ret' = <<"return", "False">>
               /\ solves' = solves
               /\ camera_matrix' = camera_matrix
               /\ dist_coeffs' = dist_coeffs
          ELSE solves' = solves + 1 ]_vars

C1_Witness ==
    /\ op[1] = "calibrate"
    /\ accepted = 4
    /\ ret = <<"return", "False">>
    /\ solves = 0

\* A calibration file that is JSON but misses a key or holds non-numeric data.
Malformed(f) ==
    /\ f.kind = "json"
    /\ \/ f.camera_matrix = Absent
       \/ f.dist_coeffs = Absent
       \/ f.camera_matrix[1] # "list"
       \/ f.dist_coeffs[1] # "list"

\* C2: load() of a file that misses a key or holds non-numeric data fails
\* and leaves camera_matrix and dist_coeffs as they were.
C2_FailedLoadKeepsState ==
    [][ (op'[1] = "load_calibration" /\ Malformed(files[op'[2]])) =>
          /\ ret' = <<"return", "False">>
          /\ camera_matrix' = camera_matrix
          /\ dist_coeffs' = dist_coeffs ]_vars

\* C3: save() returns False (NotCalibrated) whenever no calibrate() has
\* succeeded so far.
C3_SaveNeedsCalibrate ==
    (op[1] = "save_calibration" /\ calibrated = None) =>
        ret = <<"return", "False">>

\* C4: add_calibration_image appends exactly one object-point template and
\* one image-point set when the corners are found and changes neither list
\* when they are not; both lists have as many entries as images were accepted.
C4_AddAppendsPair ==
    /\ [](Len(objpoints) = accepted /\ Len(imgpoints) = accepted)
    /\ [][ op'[1] = "add_calibration_image" =>
             IF accepted' = accepted + 1
             THEN /\ ret'[2] = "True"
                  /\ objpoints' = Append(objpoints, objp)
                  /\ Len(imgpoints') = Len(imgpoints) + 1
                  /\ SubSeq(imgpoints', 1, Len(imgpoints)) = imgpoints
             ELSE /\ ret'[2] = "False"
                  /\ objpoints' = objpoints
                  /\ imgpoints' = imgpoints ]_vars

C4_Witness ==
    /\ op = <<"add_calibration_image", "noboard">>
    /\ ret[2] = "False"
    /\ accepted = 2
    /\ Len(objpoints) = 2
    /\ Len(imgpoints) = 2

\* C5: the record written by a successful save() after calibrate() holds the
\* (height, width) given to calibrate() as image_shape, and the camera_matrix
\* and dist_coeffs that calibrate() produced.
C5_SavedImageShape ==
    (/\ op[1] = "save_calibration"
     /\ ret = <<"return", "True">>
     /\ calibrated # None
     /\ camera_matrix[3] = "solveK") =>
        /\ files[op[2]].image_shape = <<"list", calibrated[2], calibrated[3]>>
        /\ files[op[2]].camera_matrix = tolist(camera_matrix)
        /\ files[op[2]].dist_coeffs = tolist(dist_coeffs)

\* C6: undistort on a calibrator whose camera_matrix is None returns the
\* input image itself and changes nothing in the calibrator.
C6_UndistortUncalibrated ==
    [][ (op'[1] = "undistort_image" /\ camera_matrix = None) =>
          /\ ret' = <<"return", "image", op'[2]>>
          /\ UNCHANGED <<objpoints, imgpoints, camera_matrix, dist_coeffs,
                         rvecs, tvecs, files>> ]_vars

C6_Witness ==
    /\ op[1] = "undistort_image"
    /\ camera_matrix = None
    /\ ret = <<"return", "image", op[2]>>
    /\ accepted > 0

(***************************************************************************)
(* Properties of the batch triangulation (specification SpecBatch).        *)
(***************************************************************************)

Poses == triangulated_poses.value
Shared(i) == NameSet(view1_data[i]) \cap NameSet(view2_data[i])

\* C7: in every frame pair the joints triangulated are exactly those present
\* in both view A's and view B's frame, in the iteration order of view A's
\* frame; joints absent from B are dropped without error and joints only in
\* B are never emitted.
C7_CorrespondenceFilter ==
    triangulated_poses.status # "NotRun" =>
        /\ triangulated_poses.status = "return"
        /\ \A i \in DOMAIN Poses :
              /\ i <= Len(view1_data)
              /\ i <= Len(view2_data)
              /\ NameSeq(Poses[i]) =
                     SelectSeq(NameSeq(view1_data[i]),
                               LAMBDA n : n \in NameSet(view2_data[i]))

C7_Witness ==
    /\ triangulated_poses.status = "return"
    /\ \E i \in DOMAIN Poses :
          /\ NameSeq(view1_data[i]) = <<0, 1, 2>>
          /\ NameSet(view2_data[i]) = {0, 2}
          /\ NameSeq(Poses[i]) = <<0, 2>>

\* C8: with sessions of different length the output has exactly
\* min(len(A), len(B)) frames, output frame i holds the joints shared by
\* frame i of A and frame i of B, each triangulated from the coordinates of
\* those two frames, and no error is raised.
C8_TruncateToShorter ==
    triangulated_poses.status # "NotRun" =>
        /\ triangulated_poses.status = "return"
        /\ Len(Poses) = (IF Len(view1_data) < Len(view2_data)
                         THEN Len(view1_data) ELSE Len(view2_data))
        /\ \A i \in DOMAIN Poses :
              /\ NameSet(Poses[i]) = Shared(i)
              /\ \A e \in Entries(Poses[i]) :
                    LET a == Get(view1_data[i], e.name)
                        b == Get(view2_data[i], e.name)
                    IN \E X \in svd_last_row(DLT(<<a.x, a.y>>, <<b.x, b.y>>,
                                                 cam_matrix1, cam_matrix2)) :
                          <<e.X, e.Y, e.Z>> = Dehomogenize(X)

C8_Witness ==
    /\ triangulated_poses.status = "return"
    /\ Len(view1_data) = 2
    /\ Len(view2_data) = 1
    /\ Len(Poses) = 1
    /\ Poses[1] # <<>>

\* C9: a frame pair without shared joints yields an empty joint map at the
\* same index of the output, so output frame i always belongs to input frame
\* pair i and sessions of equal length give an output of that length.
C9_EmptyFrameKept ==
    triangulated_poses.status # "NotRun" =>
        /\ \A i \in 1..Len(view1_data) :
              i <= Len(view2_data) =>
                 /\ i \in DOMAIN Poses
                 /\ Shared(i) = {} => Poses[i] = <<>>
                 /\ NameSet(Poses[i]) = Shared(i)
        /\ Len(view1_data) = Len(view2_data) => Len(Poses) = Len(view1_data)

C9_Witness ==
    /\ triangulated_poses.status = "return"
    /\ Len(view1_data) = 2
    /\ Len(view2_data) = 2
    /\ view1_data[1] # <<>>
    /\ view2_data[1] # <<>>
    /\ Shared(1) = {}
    /\ Len(Poses) = 2
    /\ Poses[1] = <<>>
    /\ Poses[2] # <<>>

(***************************************************************************)
(* Properties of the single-point solve (specification SpecPoint).         *)
(***************************************************************************)

\* C10: triangulating two identical projections with two identical camera
\* matrices raises DegenerateTriangulation instead of returning a point,
\* in triangulate_point and in triangulate_points alike.
C10_DegenerateRaises ==
    (cam_matrix1 = cam_matrix2 /\ p1 = p2) =>
        /\ point_3d.status # "NotRun" =>
              point_3d = [status |-> "raise", value |-> <<"DegenerateTriangulation">>]
        /\ points_3d.status # "NotRun" =>
              points_3d = [status |-> "raise", value |-> <<"DegenerateTriangulation">>]


\* A correspondence is degenerate when the homogeneous solution of its DLT
\* system can have a 4th coordinate of 0.
Degenerate(a, b) ==
    \E X \in svd_last_row(DLT(<<a.x, a.y>>, <<b.x, b.y>>, cam_matrix1, cam_matrix2)) :
        X[4] = 0

DegenerateReport == <<"DegenerateTriangulation">>

\* C11: in a batch, a degenerate correspondence is reported for its joint
\* only: that joint's entry is a DegenerateTriangulation report, and every
\* other shared joint of every frame pair is in the output with its finite
\* triangulated point.
C11_DegenerateReportedPerPoint ==
    triangulated_poses.status # "NotRun" =>
        /\ triangulated_poses.status = "return"
        /\ \A i \in DOMAIN Poses :
              /\ NameSet(Poses[i]) = Shared(i)
              /\ \A e \in Entries(Poses[i]) :
                    IF Degenerate(Get(view1_data[i], e.name), Get(view2_data[i], e.name))
                    THEN /\ e.X = DegenerateReport
                         /\ e.Y = DegenerateReport
                         /\ e.Z = DegenerateReport
                    ELSE /\ e.X[1] = "num"
                         /\ e.Y[1] = "num"
                         /\ e.Z[1] = "num"


(***************************************************************************)
(* Properties of the camera rig (specification SpecRig).                   *)
(***************************************************************************)

\* C12: the left matrix is [[f,0,cx,0],[0,f,cy,0],[0,0,1,0]] and the right
\* matrix equals it in every entry except row 0, column 3, which is
\* -f * baseline; for baseline 0 the two matrices are equal.
C12_RigMatrices ==
    cam_matrix1 # NoMatrix =>
        LET b  == rig_args[1]
            f  == rig_args[2]
            cx == rig_args[3]
            cy == rig_args[4]
        IN /\ cam_matrix1 = << <<f, 0, cx, 0>>, <<0, f, cy, 0>>, <<0, 0, 1, 0>> >>
           /\ \A r \in 1..3, c \in 1..4 :
                 cam_matrix2[r][c] = IF r = 1 /\ c = 4 THEN -(f * b)
                                     ELSE cam_matrix1[r][c]
           /\ b = 0 => cam_matrix1 = cam_matrix2

C12_Witness ==
    /\ cam_matrix1 # NoMatrix
    /\ rig_args[1] = 10
    /\ cam_matrix2[1][4] = -(rig_args[2] * 10)
    /\ cam_matrix1[1][4] = 0


(***************************************************************************)
(* Properties of the depth conversion (specification SpecDepth).           *)
(***************************************************************************)

\* C13: on an all-zero disparity map, of float or of integer elements, the
\* depth is a finite number at every pixel.
C13_ZeroDisparityFinite ==
    (/\ depth.status = "return"
     /\ \A i \in DOMAIN disparity.data : disparity.data[i][1] = 0) =>
        /\ DOMAIN depth.value = DOMAIN disparity.data
        /\ \A i \in DOMAIN depth.value : depth.value[i][1] = "num"


\* max(v, epsilon) on fractions, with the code's 0.1 as epsilon.
Clamped(v) == IF v[1] * MaskValue[2] <= MaskValue[1] * v[2] THEN MaskValue ELSE v

\* C17: every pixel's depth is baseline * focal_length / max(disparity,
\* epsilon), so it is a positive finite number whatever the disparity (zero,
\* below epsilon, negative), and the call leaves the disparity map as it was.
C17_ClampedDepth ==
    /\ [](depth.status = "return" =>
            \A i \in DOMAIN disparity.data :
                /\ depth.value[i] =
                     FloatDiv(depth_args[1] * depth_args[2] * Clamped(disparity.data[i])[2],
                              Clamped(disparity.data[i])[1])
                /\ depth.value[i][1] = "num"
                /\ depth.value[i][2] > 0)
    /\ [][depth'.status = "return" => disparity' = disparity]_vars


(***************************************************************************)
(* The round trip (specification SpecRoundTrip).                           *)
(***************************************************************************)
Exact(P) == <<FloatDiv(P[1], 1), FloatDiv(P[2], 1), FloatDiv(P[3], 1)>>

\* The 3D points whose projections are the two image points.
Preimages ==
    { P \in Points3D : Project(P, cam_matrix1) = p1 /\ Project(P, cam_matrix2) = p2 }

Recovers(P) ==
    /\ point_3d.status = "return" => point_3d.value = Exact(P)
    /\ points_3d.status = "return" => points_3d.value = <<Exact(P)>>

\* C14 as stated: for the matrices of any rig, triangulating the projections
\* of a point P in front of the cameras gives P.
C14_RoundTripAnyRig == \A P \in Preimages : Recovers(P)

\* C14: for the matrices of a rig with a nonzero baseline, triangulating the
\* projections of a point P in front of the cameras gives P.
C14_RoundTrip == rig_args[1] # 0 => \A P \in Preimages : Recovers(P)

C14_Witness ==
    /\ rig_args[1] # 0
    /\ point_3d.status = "return"
    /\ points_3d.status = "return"
    /\ <<5, -5, 40>> \in Preimages
    /\ p1 # p2
    /\ point_3d.value = Exact(<<5, -5, 40>>)


(***************************************************************************)
(* The end-to-end scenario (specification SpecScenario).                   *)
(***************************************************************************)

\* C15: with the rig of baseline 10 and focal length 640, triangulating
\* joint 0 at (100, 200) in view A against joint 0 at (80, 200) in view B
\* gives one frame with the joint 0, whose Z is a number greater than 0.
C15_ScenarioPositiveZ ==
    triangulated_poses.status = "return" =>
        /\ Len(triangulated_poses.value) = 1
        /\ Has(triangulated_poses.value[1], 0)
        /\ Get(triangulated_poses.value[1], 0).Z[1] = "num"
        /\ Get(triangulated_poses.value[1], 0).Z[2] > 0

C15_Witness ==
    /\ triangulated_poses.status = "return"
    /\ rig_args = <<10, 640, 320, 360>>
    /\ view1_data[1][1].x = 100
    /\ view2_data[1][1].x = 80
    /\ Get(triangulated_poses.value[1], 0).Z = <<"num", 320, 1>>


(***************************************************************************)
(* The calibrator's lifecycle (specification Spec).                        *)
(***************************************************************************)
\* A step that enters Calibrated, that stays in it, that keeps the dataset.
EntersCalibrated == camera_matrix = None /\ camera_matrix' # None
StaysCalibrated  == camera_matrix # None => camera_matrix' # None
KeepsDataset ==
    /\ Len(objpoints') >= Len(objpoints)
    /\ SubSeq(objpoints', 1, Len(objpoints)) = objpoints
    /\ Len(imgpoints') >= Len(imgpoints)
    /\ SubSeq(imgpoints', 1, Len(imgpoints)) = imgpoints

\* C16 as stated: Calibrated (camera_matrix present) is entered only from a
\* state holding accepted calibration pairs; once entered it is never left,
\* and the accumulated dataset never shrinks.
C16_LifecycleFromPairs ==
    [][/\ EntersCalibrated => Len(objpoints) > 0
       /\ StaysCalibrated
       /\ KeepsDataset]_vars

\* C16: Calibrated (camera_matrix present) is entered only by a calibrate
\* call from a state holding at least 5 accepted pairs, or by a
\* load_calibration call; once entered it is never left, and the accumulated
\* dataset never shrinks.
C16_Lifecycle ==
    [][/\ EntersCalibrated =>
            \/ op'[1] = "calibrate" /\ Len(objpoints) >= MinImages
            \/ op'[1] = "load_calibration"
       /\ StaysCalibrated
       /\ KeepsDataset]_vars

\* Calibrated was entered by a load on an empty dataset, and calls of the
\* other operations followed.
C16_Witness ==
    /\ camera_matrix # None
    /\ calibrated = None
    /\ objpoints = <<>>
    /\ accepted = 0
    /\ op[1] = "undistort_image"


(***************************************************************************)
(* The point-cloud export (specification SpecPly).                         *)
(***************************************************************************)

\* C18: the vertex count of the header is the number of vertex lines
\* written, and there is one line per input point, whatever the lengths of
\* points and colors.
C18_VertexCountMatchesLines ==
    ply_file.status = "return" =>
        /\ ply_file.value.vertex = Len(ply_file.value.lines)
        /\ Len(ply_file.value.lines) = Len(ply_points)


(***************************************************************************)
(* The simulated second view (specification SpecFlip).                     *)
(***************************************************************************)
\* The frame g is the frame f mirrored left-right in a frame of width w, or
\* upside down in a frame of height h.
MirroredX(f, g, w) ==
    /\ NameSeq(g) = NameSeq(f)
    /\ \A k \in DOMAIN f :
          /\ g[k].x = w - f[k].x
          /\ g[k].y = f[k].y /\ g[k].z = f[k].z /\ g[k].vis = f[k].vis
MirroredY(f, g, h) ==
    /\ NameSeq(g) = NameSeq(f)
    /\ \A k \in DOMAIN f :
          /\ g[k].y = h - f[k].y
          /\ g[k].x = f[k].x /\ g[k].z = f[k].z /\ g[k].vis = f[k].vis

\* The session-level part: the flipped session, the double flip, and the
\* alignment of the session with its simulated second view.
SessionFlip ==
    /\ flips % 2 = 1 =>
          /\ Len(view2_data) = Len(view1_data)
          /\ \A i \in DOMAIN view1_data :
                MirroredX(view1_data[i], view2_data[i], frame_width)
    /\ (flips > 0 /\ flips % 2 = 0) => view2_data = view1_data
    /\ triangulated_poses.status # "NotRun" =>
          /\ triangulated_poses.status = "return"
          /\ Len(Poses) = Len(view1_data)
          /\ \A i \in DOMAIN view1_data : NameSeq(Poses[i]) = NameSeq(view1_data[i])

Flipped == flipped_keypoints.value

\* C19 as stated: every simulated second view has the frames and the joints
\* of the original, with y, z and vis unchanged and x replaced by
\* frame_width - x; flipping twice returns the original, and aligning a
\* session with its simulated second view drops no joint and no frame.
C19_FlipIsHorizontal ==
    /\ SessionFlip
    /\ flipped_keypoints.status = "return" =>
          IF Flipped.calls % 2 = 1
          THEN MirroredX(view1_data[Flipped.frame], Flipped.keypoints, frame_width)
          ELSE Flipped.keypoints = view1_data[Flipped.frame]

\* C19: the simulated second view has the frames and the joints of the
\* original; with the horizontal flip (simulate_second_view.py, and
\* stereo_utils with flip_horizontally true) y, z and vis are unchanged and
\* x is replaced by frame_width - x; with the vertical flip of stereo_utils
\* x, z and vis are unchanged and y is replaced by 480 - y; flipping twice
\* returns the original, and aligning a session with its simulated second
\* view drops no joint and no frame.
C19_FlipPreservesStructure ==
    /\ SessionFlip
    /\ flipped_keypoints.status = "return" =>
          IF Flipped.calls % 2 = 0
          THEN Flipped.keypoints = view1_data[Flipped.frame]
          ELSE IF Flipped.flip_horizontally
          THEN MirroredX(view1_data[Flipped.frame], Flipped.keypoints, frame_width)
          ELSE MirroredY(view1_data[Flipped.frame], Flipped.keypoints, frame_height)

C19_Witness ==
    /\ flips = 2
    /\ Len(view1_data) = 2
    /\ NameSeq(view1_data[1]) = <<2, 0>>
    /\ view2_data = view1_data
    /\ triangulated_poses.status = "return"
    /\ NameSeq(Poses[1]) = <<2, 0>>
    /\ flipped_keypoints.status = "return"
    /\ ~Flipped.flip_horizontally
    /\ Flipped.calls = 1
    /\ Flipped.keypoints[1].y = frame_height - view1_data[Flipped.frame][1].y

====
